---- MODULE Spec2Model ----
(***************************************************************************)
(* Model of t8's translation cache (src/src/cache.ts), its request         *)
(* batching queue (src/src/batch.ts) and the public entry point            *)
(* (src/src/index.ts).                                                     *)
(*                                                                         *)
(* Execution model: one JavaScript thread.  An action is one run of the    *)
(* event loop: a user call, or the completion of an I/O operation, of the  *)
(* generator call or of a timer, followed by all the synchronous code and  *)
(* already-satisfied awaits it leads to, up to the next real suspension    *)
(* point.  The only promise several coroutines wait on is the lock promise *)
(* of withLock; its waiters are resumed through the microtask queue mq, in *)
(* the order in which they started waiting, before the event loop takes    *)
(* any other event.                                                        *)
(***************************************************************************)
EXTENDS Integers, Sequences, FiniteSets, TLC

\* ------------------------------------------------------------------ bounds

MaxCalls == 2
MaxWrites == 3
MaxBatchSize == 2
MaxExamples == 2

Texts == {"A", "B"}
Values == {"", "x", "y"}
Langs == {"fr"}
Ctxs == {"default"}

\* ------------------------------------------------------------------ state

VARIABLES
  config,     \* config.ts: the current configuration (localesDir, batchSize)
  memCache,   \* cache.ts: Map<"localesDir:lang:ctx", Record<text, translation>>
  files,      \* the file system: path -> content of the cache file
  locks,      \* cache.ts: Map<filePath, Promise<void>>, with the promise's waiters
  mq,         \* microtask queue: coroutines resumed by a resolved lock promise
  queues,     \* batch.ts: Map<"lang:ctx", QueueItem[]>
  timers,     \* batch.ts: Map<"lang:ctx", Timeout>
  tasks,      \* the coroutines: t8 / setCached / setCachedBatch calls and flushes
  arrivals,   \* history: withLock calls, in call order
  entered     \* history: critical sections, in entry order

vars == <<config, memCache, files, locks, mq, queues, timers, tasks, arrivals, entered>>

\* ------------------------------------------------------------------ objects
\* A JavaScript object with string keys: a sequence of [k, v] pairs with
\* distinct keys, in insertion order.

Keys(m) == {m[i].k : i \in DOMAIN m}

Has(m, k) == \E i \in DOMAIN m : m[i].k = k

Get(m, k) == m[CHOOSE i \in DOMAIN m : m[i].k = k].v

\* JavaScript truthiness of m[k]: undefined and "" are falsy.
Truthy(m, k) == Has(m, k) /\ Get(m, k) # ""

\* m[k] = v
Put(m, k, v) ==
  IF Has(m, k)
  THEN [i \in DOMAIN m |-> IF m[i].k = k THEN [k |-> k, v |-> v] ELSE m[i]]
  ELSE Append(m, [k |-> k, v |-> v])

RECURSIVE ObjectAssign(_, _)
ObjectAssign(target, src) ==
  IF src = <<>> THEN target
  ELSE ObjectAssign(Put(target, Head(src).k, Head(src).v), Tail(src))

\* All objects whose keys are in ks and whose values are in vs.
Objects(ks, vs) ==
  {m \in UNION {[1..n -> [k : ks, v : vs]] : n \in 0..Cardinality(ks)} :
     \A i, j \in DOMAIN m : i # j => m[i].k # m[j].k}

\* Array.from(new Set(array)): first occurrences, in order.
RECURSIVE UniqueOf(_, _)
UniqueOf(seq, seen) ==
  IF seq = <<>> THEN <<>>
  ELSE IF Head(seq) \in seen THEN UniqueOf(Tail(seq), seen)
  ELSE <<Head(seq)>> \o UniqueOf(Tail(seq), seen \cup {Head(seq)})

Range(seq) == {seq[i] : i \in DOMAIN seq}

\* ------------------------------------------------------------------ keys

getQueueKey(lang, ctx) == lang \o ":" \o ctx

getCacheKey(cfg, lang, ctx) == cfg.localesDir \o ":" \o lang \o ":" \o ctx

getCachePath(cfg, lang, ctx) == cfg.localesDir \o "/" \o lang \o "/" \o ctx \o ".json"

\* ------------------------------------------------------------------ records

NoData == [st |-> "none", m |-> <<>>]

Pending == [st |-> "pending", v |-> ""]

LoadError(path) == "Failed to load cache from " \o path

WriteError == "write failed"

GeneratorError == "generator failed"

NoTranslation(text) == "No translation returned for: " \o text

NewTask(kind, text, lang, ctx, ents) ==
  [kind |-> kind, text |-> text, lang |-> lang, ctx |-> ctx, entries |-> ents,
   pc |-> "start", key |-> "", lockKey |-> "", loadKey |-> "", loadPath |-> "",
   savePath |-> "", data |-> NoData, cache |-> <<>>, queue |-> <<>>,
   sent |-> <<>>, examples |-> <<>>, genCount |-> 0, gen |-> "none", persist |-> "none",
   via |-> "", root |-> "", returned |-> <<>>, alias |-> "", saveCount |-> 0,
   outcome |-> Pending]

\* The state as one value, so that a chain of synchronous calls is a
\* composition of functions from state to state.
Cur ==
  [config |-> config, memCache |-> memCache, files |-> files, locks |-> locks,
   mq |-> mq, queues |-> queues, timers |-> timers, tasks |-> tasks,
   arrivals |-> arrivals, entered |-> entered]

Commit(s) ==
  /\ config' = s.config
  /\ memCache' = s.memCache
  /\ files' = s.files
  /\ locks' = s.locks
  /\ mq' = s.mq
  /\ queues' = s.queues
  /\ timers' = s.timers
  /\ tasks' = s.tasks
  /\ arrivals' = s.arrivals
  /\ entered' = s.entered

\* Map.set / Map.delete on a map held as a function with a growing domain.
MapSet(f, k, v) == [x \in DOMAIN f \cup {k} |-> IF x = k THEN v ELSE f[x]]

MapDelete(f, k) == [x \in DOMAIN f \ {k} |-> f[x]]

\* A promise settles once: resolve / reject on a settled promise is a no-op.
Settle(s, t, st, v) ==
  IF s.tasks[t].outcome.st = "pending"
  THEN [s EXCEPT !.tasks[t].outcome = [st |-> st, v |-> v], !.tasks[t].pc = "done"]
  ELSE s

\* ------------------------------------------------------------------ batch.ts: settling a batch

\* item.resolve(result): the first caller's resolve, then every piggybacked
\* caller's, in the order in which enqueue wrapped them.
RECURSIVE callResolve(_, _, _)
callResolve(s, resolvers, v) ==
  IF resolvers = <<>> THEN s
  ELSE callResolve(Settle(s, Head(resolvers), "resolved", v), Tail(resolvers), v)

\* item.reject(error): the reject of the caller that created the item.
callReject(s, item, err) == Settle(s, item.reject, "rejected", err)

\* for (const item of queue) { translations[item.text] ? resolve : reject }
RECURSIVE resolveLoop(_, _, _)
resolveLoop(s, queue, translations) ==
  IF queue = <<>> THEN s
  ELSE LET item == Head(queue)
           s1 == IF Truthy(translations, item.text)
                 THEN callResolve(s, item.resolve, Get(translations, item.text))
                 ELSE callReject(s, item, NoTranslation(item.text))
       IN resolveLoop(s1, Tail(queue), translations)

\* catch (error) { for (const item of queue) item.reject(error) }
RECURSIVE rejectLoop(_, _, _)
rejectLoop(s, queue, err) ==
  IF queue = <<>> THEN s
  ELSE rejectLoop(callReject(s, Head(queue), err), Tail(queue), err)

flushDone(s, f) ==
  [s EXCEPT !.tasks[f].pc = "done", !.tasks[f].outcome = [st |-> "resolved", v |-> ""],
            !.tasks[f].cache = <<>>]

flushCatch(s, f, err) == flushDone(rejectLoop(s, s.tasks[f].queue, err), f)

flushResolve(s, f) ==
  flushDone(resolveLoop(s, s.tasks[f].queue, s.tasks[f].entries), f)

\* ------------------------------------------------------------------ cache.ts: load, save, lock

\* loadCache up to its first decision: is the partition already in memory?
loadCacheHit(s, t) ==
  getCacheKey(s.config, s.tasks[t].lang, s.tasks[t].ctx) \in DOMAIN s.memCache

loadCacheGet(s, t) ==
  s.memCache[getCacheKey(s.config, s.tasks[t].lang, s.tasks[t].ctx)]

\* loadCache: not in memory, so fs.readFile(filePath) is issued and awaited.
loadCacheRead(s, t) ==
  [s EXCEPT !.tasks[t].loadKey = getCacheKey(s.config, s.tasks[t].lang, s.tasks[t].ctx),
            !.tasks[t].loadPath = getCachePath(s.config, s.tasks[t].lang, s.tasks[t].ctx),
            !.tasks[t].data = NoData]

\* The entries are stored in place of the partition, not merged into it.
setCachedBodyNoMerge(s, t, cache) ==
  [s EXCEPT !.memCache = MapSet(@, s.tasks[t].key, s.tasks[t].entries),
            !.tasks[t].cache = s.tasks[t].entries,
            !.tasks[t].savePath = s.tasks[t].lockKey,
            !.tasks[t].pc = "mkdir"]

\* The body of the critical section after loadCache returned cache:
\* cache[text] = translation / Object.assign(cache, entries); memCache.set(key, cache);
\* then saveCache(filePath, cache) up to its first await, fs.mkdir; filePath is
\* the path computed when setCached / setCachedBatch was called.
setCachedBody(s, t, cache) ==
  LET merged == ObjectAssign(cache, s.tasks[t].entries)
  IN [s EXCEPT !.memCache = MapSet(@, s.tasks[t].key, merged),
               !.tasks[t].cache = merged,
               !.tasks[t].saveCount = @ + 1,
               !.tasks[t].savePath = s.tasks[t].lockKey,
               !.tasks[t].pc = "mkdir"]

\* fn(): the critical section up to its first suspension point.
criticalSection(s, t) ==
  IF loadCacheHit(s, t) THEN setCachedBody(s, t, loadCacheGet(s, t))
  ELSE loadCacheRead(s, t)

\* withLock after its while loop: locks.set(key, promise); await fn().
acquire(s, t) ==
  LET lk == s.tasks[t].lockKey
  IN criticalSection(
       [s EXCEPT !.locks = MapSet(@, lk, [holder |-> t, waiters |-> <<>>]),
                 !.entered = Append(@, [key |-> lk, t |-> t]),
                 !.tasks[t].pc = "loadCache"], t)

\* while (locks.has(key)) await locks.get(key): wait on the current promise.
lockWait(s, t) ==
  [s EXCEPT !.locks[s.tasks[t].lockKey].waiters = Append(@, t),
            !.tasks[t].pc = "withLock"]

\* One lock for all keys: the caller waits while any critical section runs.
lockTryGlobal(s, t) ==
  IF DOMAIN s.locks # {}
  THEN LET lk == CHOOSE k \in DOMAIN s.locks : TRUE
       IN [s EXCEPT !.locks[lk].waiters = Append(@, t), !.tasks[t].pc = "withLock"]
  ELSE acquire(s, t)

\* One pass of withLock's while loop.
lockTry(s, t) ==
  IF s.tasks[t].lockKey \in DOMAIN s.locks THEN lockWait(s, t) ELSE acquire(s, t)

\* A waiter that takes the lock as soon as it is resumed ("if" for "while").
lockRetryOnce(s, t) == acquire(s, t)

\* After await locks.get(key) the loop tests locks.has(key) again.
lockRetry(s, t) == lockTry(s, t)

withLock(s, t) ==
  lockTry([s EXCEPT !.arrivals = Append(@, [key |-> s.tasks[t].lockKey, t |-> t])], t)

RECURSIVE Reverse(_)
Reverse(seq) == IF seq = <<>> THEN <<>> ELSE Append(Reverse(Tail(seq)), Head(seq))

\* Waiters resumed last-come first-served.
wakeOrderLifo(waiters) == Reverse(waiters)

\* The waiters of a resolved lock promise, in the order the microtask queue
\* resumes them: the order in which they awaited it.
wakeOrder(waiters) == waiters

\* finally { locks.delete(key); resolve(); }
release(s, t) ==
  LET lk == s.tasks[t].lockKey
      waiters == IF lk \in DOMAIN s.locks THEN s.locks[lk].waiters ELSE <<>>
  IN [s EXCEPT !.locks = MapDelete(@, lk),
               !.mq = @ \o wakeOrder(waiters)]

\* setCached / setCachedBatch: key and lockKey, then withLock.
setCachedStart(s, t) ==
  withLock([s EXCEPT !.tasks[t].key = getCacheKey(s.config, s.tasks[t].lang, s.tasks[t].ctx),
                     !.tasks[t].lockKey = getCachePath(s.config, s.tasks[t].lang, s.tasks[t].ctx)], t)

\* No finally: a critical section that throws leaves its lock in the map.
setCachedEndNoFinally(s, t, ok, err) ==
  LET s1 == IF ok THEN release(s, t) ELSE s
  IN IF s.tasks[t].kind = "flush"
     THEN IF ok THEN flushResolve([s1 EXCEPT !.tasks[t].persist = "ok"], t)
          ELSE flushCatch([s1 EXCEPT !.tasks[t].persist = "fail"], t, err)
     ELSE [Settle(s1, t, IF ok THEN "resolved" ELSE "rejected", err)
             EXCEPT !.tasks[t].cache = <<>>]

\* flush ignores the failure of setCachedBatch and resolves its waiters.
setCachedEndSwallow(s, t, ok, err) ==
  LET s1 == release(s, t)
  IN IF s.tasks[t].kind = "flush"
     THEN flushResolve([s1 EXCEPT !.tasks[t].persist = IF ok THEN "ok" ELSE "fail"], t)
     ELSE [Settle(s1, t, IF ok THEN "resolved" ELSE "rejected", err)
             EXCEPT !.tasks[t].cache = <<>>]

\* The critical section has ended (ok, or by throwing err): the lock is
\* released and the caller of setCached / setCachedBatch continues.
setCachedEnd(s, t, ok, err) ==
  LET s1 == release(s, t)
  IN IF s.tasks[t].kind = "flush"
     THEN IF ok THEN flushResolve([s1 EXCEPT !.tasks[t].persist = "ok"], t)
          ELSE flushCatch([s1 EXCEPT !.tasks[t].persist = "fail"], t, err)
     ELSE [Settle(s1, t, IF ok THEN "resolved" ELSE "rejected", err)
             EXCEPT !.tasks[t].cache = <<>>]

\* getCached after loadCache returned: cache[text] || null.  A call that
\* returns null has the outcome "null".
getCachedReturn(s, t, cache) ==
  IF Truthy(cache, s.tasks[t].text)
  THEN Settle(s, t, "resolved", Get(cache, s.tasks[t].text))
  ELSE Settle(s, t, "null", "")

getCached(s, t) ==
  IF loadCacheHit(s, t) THEN getCachedReturn(s, t, loadCacheGet(s, t))
  ELSE loadCacheRead(s, t)

\* The object in memCache itself is handed out: alias names its key.
spreadLive(s, t, cache) ==
  [s EXCEPT !.tasks[t].returned = cache,
            !.tasks[t].alias = getCacheKey(s.config, s.tasks[t].lang, s.tasks[t].ctx)]

\* { ...cache }: a new object with the same entries, no alias of the
\* partition in memory.
spread(s, t, cache) ==
  [s EXCEPT !.tasks[t].returned = cache, !.tasks[t].alias = ""]

\* getAllCached after loadCache returned: return { ...cache }.
getAllCachedReturn(s, t, cache) == Settle(spread(s, t, cache), t, "resolved", "")

getAllCached(s, t) ==
  IF loadCacheHit(s, t) THEN getAllCachedReturn(s, t, loadCacheGet(s, t))
  ELSE loadCacheRead(s, t)

\* ------------------------------------------------------------------ batch.ts: enqueue, flush

\* Array.prototype.slice(start): a negative start counts from the end, and
\* -0 is 0, the start of the array.
slice(array, start) ==
  LET from == IF start < 0
              THEN (IF Len(array) + start > 0 THEN Len(array) + start ELSE 0)
              ELSE (IF start < Len(array) THEN start ELSE Len(array))
  IN SubSeq(array, from + 1, Len(array))

\* selectExamples(cache, maxExamples)
selectExamples(cache, maxExamples) ==
  IF Len(cache) <= maxExamples THEN cache
  ELSE slice(cache, 0 - maxExamples)

\* The batch is sent to the generator one text per call.
flushTranslatePerText(s, f, cache) ==
  [s EXCEPT !.tasks[f].examples = selectExamples(cache, s.config.maxExamples),
            !.tasks[f].genCount = @ + Len(s.tasks[f].sent),
            !.tasks[f].pc = "translate"]

\* The texts that the cache holds by now are dropped from the batch before
\* the generator is called.
flushTranslateUncached(s, f, cache) ==
  [s EXCEPT !.tasks[f].examples = selectExamples(cache, s.config.maxExamples),
            !.tasks[f].sent = SelectSeq(@, LAMBDA text : ~Truthy(cache, text)),
            !.tasks[f].genCount = @ + 1,
            !.tasks[f].pc = "translate"]

\* flush after getAllCached returned: examples, then provider.translate is
\* called once and awaited.
flushTranslate(s, f, cache) ==
  [s EXCEPT !.tasks[f].examples = selectExamples(cache, s.config.maxExamples),
            !.tasks[f].genCount = @ + 1,
            !.tasks[f].pc = "translate"]

\* The batch stays in the map while it is flushed.
detachLate(s, key) == s

\* queues.delete(key)
detach(s, key) == [s EXCEPT !.queues = MapDelete(@, key)]

\* flush(lang, ctx); via names the call site: "size" (enqueue) or "timer".
flush(s, lang, ctx, via) ==
  LET key == getQueueKey(lang, ctx)
  IN IF key \notin DOMAIN s.queues THEN s
     ELSE IF s.queues[key] = <<>> THEN s
     ELSE LET queue == s.queues[key]
              f == Len(s.tasks) + 1
              uniqueTexts == UniqueOf([i \in DOMAIN queue |-> queue[i].text], {})
              s1 == [detach(s, key) EXCEPT
                              !.tasks = Append(@, [NewTask("flush", "", lang, ctx, <<>>)
                                                     EXCEPT !.queue = queue,
                                                            !.via = via,
                                                            !.sent = uniqueTexts,
                                                            !.pc = "getAllCached"])]
          IN IF loadCacheHit(s1, f) THEN flushTranslate(s1, f, loadCacheGet(s1, f))
             ELSE loadCacheRead(s1, f)

\* existing.resolve = (result) => { originalResolve(result); resolve(result); }
\* Only resolve is wrapped; existing.reject stays the first caller's.
piggyback(item, t) == [item EXCEPT !.resolve = Append(@, t)]

\* The threshold is passed before the batch is flushed.
batchFullLate(queue, cfg) == Len(queue) > cfg.batchSize

\* The batch is flushed at twice the threshold.
batchFullDouble(queue, cfg) == Len(queue) >= 2 * cfg.batchSize

\* queue.length >= config.batchSize
batchFull(queue, cfg) == Len(queue) >= cfg.batchSize

\* The timer of the partition stays armed.
clearTimerKeep(s, key) == s

\* clearTimeout(timers.get(key)); timers.delete(key)
clearTimer(s, key) == [s EXCEPT !.timers = MapDelete(@, key)]

\* No timer is armed for the batch.
setTimerNever(s, key, lang, ctx) == s

\* timers.set(key, setTimeout(() => { timers.delete(key); flush(lang, ctx) }, batchDelay))
setTimer(s, key, lang, ctx) ==
  [s EXCEPT !.timers = MapSet(@, key, [lang |-> lang, ctx |-> ctx])]

enqueue(s, t) ==
  LET tk == s.tasks[t]
      key == getQueueKey(tk.lang, tk.ctx)
      s1 == [(IF key \in DOMAIN s.queues THEN s
              ELSE [s EXCEPT !.queues = MapSet(@, key, <<>>)])
               EXCEPT !.tasks[t].pc = "enqueued"]
      queue == s1.queues[key]
      found == {i \in DOMAIN queue : queue[i].text = tk.text}
  IN IF found # {}
     THEN LET i == CHOOSE x \in found : \A y \in found : x <= y
          IN [s1 EXCEPT !.queues[key][i] = piggyback(@, t)]
     ELSE LET s2 == [s1 EXCEPT !.queues[key] =
                        Append(@, [text |-> tk.text, resolve |-> <<t>>, reject |-> t])]
          IN IF batchFull(s2.queues[key], s2.config)
             THEN flush(clearTimer(s2, key), tk.lang, tk.ctx, "size")
             ELSE IF key \notin DOMAIN s2.timers
             THEN setTimer(s2, key, tk.lang, tk.ctx)
             ELSE s2

\* ------------------------------------------------------------------ index.ts: t8

\* Every request goes to the queue, cached or not.
t8CachedAlwaysEnqueue(s, t, cache) == enqueue(s, t)

\* t8 after getCached returned: cache[text] || null, then enqueue on null.
t8Cached(s, t, cache) ==
  IF Truthy(cache, s.tasks[t].text)
  THEN Settle(s, t, "resolved", Get(cache, s.tasks[t].text))
  ELSE enqueue(s, t)

t8(s, t) ==
  IF loadCacheHit(s, t) THEN t8Cached(s, t, loadCacheGet(s, t))
  ELSE loadCacheRead(s, t)

\* ------------------------------------------------------------------ actions

UserCalls == {t \in DOMAIN tasks : tasks[t].kind # "flush"}

\* A new event is taken from the event loop only when no microtask is queued.
Idle == mq = <<>>

CanCall(max) == Idle /\ Cardinality(UserCalls) < max

NextId == Len(tasks) + 1

Spawn(s, task) == [s EXCEPT !.tasks = Append(@, task)]

\* index.ts: t8(text, lang, ctx)
CallT8(text, lang, ctx) ==
  /\ CanCall(MaxCalls)
  /\ Commit(t8(Spawn(Cur, [NewTask("t8", text, lang, ctx, <<>>)
                              EXCEPT !.pc = "getCached", !.root = config.localesDir]),
               NextId))

\* index.ts: t8.configure({ localesDir })
Configure(localesDir) ==
  /\ Idle
  /\ localesDir # config.localesDir
  /\ Commit([Cur EXCEPT !.config.localesDir = localesDir])

\* cache.ts: setCached(text, translation, lang, ctx)
CallSetCached(text, translation, lang, ctx) ==
  /\ CanCall(MaxWrites)
  /\ Commit(setCachedStart(
       Spawn(Cur, NewTask("setCached", text, lang, ctx, <<[k |-> text, v |-> translation]>>)),
       NextId))

\* cache.ts: setCachedBatch(entries, lang, ctx)
CallSetCachedBatch(ents, lang, ctx) ==
  /\ CanCall(MaxWrites)
  /\ Commit(setCachedStart(Spawn(Cur, NewTask("setCachedBatch", "", lang, ctx, ents)), NextId))

\* cache.ts: getCached(text, lang, ctx), called directly
CallGetCached(text, lang, ctx) ==
  /\ CanCall(MaxWrites)
  /\ Commit(getCached(Spawn(Cur, [NewTask("getCached", text, lang, ctx, <<>>)
                                    EXCEPT !.pc = "getCached"]),
                      NextId))

\* cache.ts: getAllCached(lang, ctx), called directly
CallGetAllCached(lang, ctx) ==
  /\ CanCall(MaxWrites)
  /\ Commit(getAllCached(Spawn(Cur, [NewTask("getAllCached", "", lang, ctx, <<>>)
                                       EXCEPT !.pc = "getAllCached"]),
                         NextId))

\* delete m[k]
Delete(m, k) ==
  LET keep == {i \in DOMAIN m : m[i].k # k}
      F[i \in 0..Len(m)] ==
        IF i = 0 THEN <<>> ELSE IF i \in keep THEN Append(F[i - 1], m[i]) ELSE F[i - 1]
  IN F[Len(m)]

\* What a caller does to the object it got: set or overwrite an entry, or
\* delete one.
Mutated(m, op) == IF op.op = "set" THEN Put(m, op.k, op.v) ELSE Delete(m, op.k)

Mutations ==
  {[op |-> "set", k |-> k, v |-> "m"] : k \in Texts}
    \cup {[op |-> "delete", k |-> k, v |-> ""] : k \in Texts}

\* The caller of getAllCached changes the object it was returned; so does
\* every holder of the same object.
Mutate(t, op) ==
  /\ Idle
  /\ tasks[t].kind = "getAllCached"
  /\ tasks[t].outcome.st = "resolved"
  /\ Mutated(tasks[t].returned, op) # tasks[t].returned
  /\ LET s1 == [Cur EXCEPT !.tasks[t].returned = Mutated(@, op)]
         a == tasks[t].alias
     IN Commit(IF a \in DOMAIN memCache
               THEN [s1 EXCEPT !.memCache[a] = Mutated(@, op)]
               ELSE s1)

Reading(t) == tasks[t].pc \in {"getCached", "getAllCached", "loadCache"}

\* fs.readFile reads the file: the content it will deliver.
ReadFilePerform(t) ==
  /\ Idle
  /\ Reading(t)
  /\ tasks[t].data.st = "none"
  /\ LET path == tasks[t].loadPath
     IN tasks' = [tasks EXCEPT ![t].data =
                    IF path \notin DOMAIN files THEN [st |-> "ENOENT", m |-> <<>>]
                    ELSE IF files[path].ok THEN [st |-> "json", m |-> files[path].data]
                    ELSE [st |-> "invalid", m |-> <<>>]]
  /\ UNCHANGED <<config, memCache, files, locks, mq, queues, timers, arrivals, entered>>

\* The caller of loadCache continues with the loaded object.
loadCacheReturn(s, t, cache) ==
  CASE s.tasks[t].pc = "getCached" ->
         IF s.tasks[t].kind = "t8" THEN t8Cached(s, t, cache) ELSE getCachedReturn(s, t, cache)
    [] s.tasks[t].pc = "getAllCached" ->
         IF s.tasks[t].kind = "flush" THEN flushTranslate(s, t, cache)
         ELSE getAllCachedReturn(s, t, cache)
    [] s.tasks[t].pc = "loadCache" -> setCachedBody(s, t, cache)

\* loadCache throws: the caller of loadCache fails.
loadCacheThrow(s, t, err) ==
  CASE s.tasks[t].pc = "getCached" -> Settle(s, t, "rejected", err)
    [] s.tasks[t].pc = "getAllCached" ->
         IF s.tasks[t].kind = "flush" THEN flushCatch(s, t, err)
         ELSE Settle(s, t, "rejected", err)
    [] s.tasks[t].pc = "loadCache" -> setCachedEnd(s, t, FALSE, err)

\* An unparseable file is loaded as an empty object.
loadCacheResumeLenient(s, t) ==
  LET tk == s.tasks[t]
      s1 == [s EXCEPT !.tasks[t].data = NoData]
  IN loadCacheReturn([s1 EXCEPT !.memCache = MapSet(@, tk.loadKey, tk.data.m)], t, tk.data.m)

\* A missing file is an error like any other read error.
loadCacheResumeStrict(s, t) ==
  LET tk == s.tasks[t]
      s1 == [s EXCEPT !.tasks[t].data = NoData]
  IN IF tk.data.st \in {"invalid", "ENOENT"} THEN loadCacheThrow(s1, t, LoadError(tk.loadPath))
     ELSE loadCacheReturn([s1 EXCEPT !.memCache = MapSet(@, tk.loadKey, tk.data.m)],
                          t, tk.data.m)

\* loadCache after await fs.readFile: parse and memCache.set(key, data), or
\* ENOENT and memCache.set(key, {}), or throw.
loadCacheResume(s, t) ==
  LET tk == s.tasks[t]
      s1 == [s EXCEPT !.tasks[t].data = NoData]
  IN IF tk.data.st = "invalid" THEN loadCacheThrow(s1, t, LoadError(tk.loadPath))
     ELSE loadCacheReturn([s1 EXCEPT !.memCache = MapSet(@, tk.loadKey, tk.data.m)],
                          t, tk.data.m)

ReadFileComplete(t) ==
  /\ Idle
  /\ Reading(t)
  /\ tasks[t].data.st # "none"
  /\ Commit(loadCacheResume(Cur, t))

\* The timer callback forgets the timer and leaves the batch collecting.
TimerFireNoFlush(key) ==
  /\ Idle
  /\ key \in DOMAIN timers
  /\ Commit([Cur EXCEPT !.timers = MapDelete(@, key)])

\* The delay timer of a queue fires: timers.delete(key); flush(lang, ctx).
TimerFire(key) ==
  /\ Idle
  /\ key \in DOMAIN timers
  /\ Commit(flush([Cur EXCEPT !.timers = MapDelete(@, key)],
                  timers[key].lang, timers[key].ctx, "timer"))

\* provider.translate returns translations: setCachedBatch(translations, lang, ctx).
GeneratorReturn(f, translations) ==
  /\ Idle
  /\ tasks[f].pc = "translate"
  /\ Commit(setCachedStart([Cur EXCEPT !.tasks[f].gen = "ok",
                                       !.tasks[f].entries = translations], f))

\* The failure is noticed only after the texts of the batch were stored
\* without a translation.
GeneratorFailPersist(f) ==
  /\ Idle
  /\ tasks[f].pc = "translate"
  /\ Commit(setCachedStart(
       [Cur EXCEPT !.tasks[f].gen = "fail",
                   !.tasks[f].entries = [i \in DOMAIN tasks[f].sent |->
                                           [k |-> tasks[f].sent[i], v |-> ""]]], f))

\* provider.translate throws.
GeneratorFail(f) ==
  /\ Idle
  /\ tasks[f].pc = "translate"
  /\ Commit(flushCatch([Cur EXCEPT !.tasks[f].gen = "fail"], f, GeneratorError))

\* saveCache: fs.mkdir done, fs.writeFile(tempPath, JSON.stringify(data)) issued.
MkdirComplete(t) ==
  /\ Idle
  /\ tasks[t].pc = "mkdir"
  /\ tasks' = [tasks EXCEPT ![t].pc = "writeFile"]
  /\ UNCHANGED <<config, memCache, files, locks, mq, queues, timers, arrivals, entered>>

\* The file is written in place.
TempPathInPlace(path) == path

\* const tempPath = `${filePath}.tmp`
TempPath(path) == path \o ".tmp"

\* saveCache: the temp file is written, fs.rename issued.
WriteFileComplete(t) ==
  /\ Idle
  /\ tasks[t].pc = "writeFile"
  /\ files' = MapSet(files, TempPath(tasks[t].savePath), [ok |-> TRUE, data |-> tasks[t].cache])
  /\ tasks' = [tasks EXCEPT ![t].pc = "rename"]
  /\ UNCHANGED <<config, memCache, locks, mq, queues, timers, arrivals, entered>>

\* saveCache: the rename is done; the critical section returns.
RenameComplete(t) ==
  /\ Idle
  /\ tasks[t].pc = "rename"
  /\ LET path == tasks[t].savePath
     IN Commit(setCachedEnd(
          [Cur EXCEPT !.files = MapSet(MapDelete(@, TempPath(path)), path, files[TempPath(path)])],
          t, TRUE, ""))

\* A file whose write was interrupted: not parseable.
Torn == [ok |-> FALSE, data |-> <<>>]

\* One of saveCache's file operations fails: saveCache throws.  A failed
\* fs.writeFile may leave the temp file partly written (torn).
SaveFail(t, torn) ==
  /\ Idle
  /\ tasks[t].pc \in {"mkdir", "writeFile", "rename"}
  /\ torn => tasks[t].pc = "writeFile"
  /\ Commit(setCachedEnd(
       IF torn THEN [Cur EXCEPT !.files = MapSet(@, TempPath(tasks[t].savePath), Torn)]
       ELSE Cur,
       t, FALSE, WriteError))

\* A waiter of a resolved lock promise resumes: the while loop of withLock.
LockResume ==
  /\ mq # <<>>
  /\ Commit(lockRetry([Cur EXCEPT !.mq = Tail(@)], Head(mq)))

\* ------------------------------------------------------------------ specification

DefaultDir == "./locales"

InitialObject == <<[k |-> "A", v |-> "o"]>>

InitConfigs ==
  {[localesDir |-> DefaultDir, batchSize |-> n, maxExamples |-> 1] : n \in 1..MaxBatchSize}

InitialFiles(cfg) ==
  LET path == getCachePath(cfg, "fr", "default")
  IN {<<>>,
      [p \in {path} |-> [ok |-> TRUE, data |-> InitialObject]],
      [p \in {path} |-> [ok |-> FALSE, data |-> <<>>]]}

Init ==
  /\ config \in InitConfigs
  /\ files \in InitialFiles(config)
  /\ memCache = <<>>
  /\ locks = <<>>
  /\ mq = <<>>
  /\ queues = <<>>
  /\ timers = <<>>
  /\ tasks = <<>>
  /\ arrivals = <<>>
  /\ entered = <<>>

PutInputs == {<<"A", "x">>, <<"A", "y">>, <<"B", "x">>, <<"B", "">>}

BatchInputs ==
  {<<[k |-> "A", v |-> ""], [k |-> "B", v |-> "y"]>>,
   <<[k |-> "B", v |-> "x"], [k |-> "A", v |-> "y"]>>}

\* The public API (index.ts): t8 requests.
Requests ==
  \E text \in Texts, lang \in Langs, ctx \in Ctxs : CallT8(text, lang, ctx)

\* The cache module's write API (cache.ts), called directly.
Writes ==
  \/ \E in \in PutInputs, lang \in Langs, ctx \in Ctxs :
       CallSetCached(in[1], in[2], lang, ctx)
  \/ \E ents \in BatchInputs, lang \in Langs, ctx \in Ctxs : CallSetCachedBatch(ents, lang, ctx)

\* The event loop's events of the cache module.
CacheEvents ==
  \/ \E t \in DOMAIN tasks : ReadFilePerform(t)
  \/ \E t \in DOMAIN tasks : ReadFileComplete(t)
  \/ \E t \in DOMAIN tasks : MkdirComplete(t)
  \/ \E t \in DOMAIN tasks : WriteFileComplete(t)
  \/ \E t \in DOMAIN tasks : RenameComplete(t)
  \/ \E t \in DOMAIN tasks, torn \in BOOLEAN : SaveFail(t, torn)
  \/ LockResume

\* The event loop's events of the batching queue.
BatchEvents ==
  \/ \E key \in DOMAIN timers : TimerFire(key)
  \/ \E f \in DOMAIN tasks :
       \E translations \in Objects(Range(tasks[f].sent), Values) : GeneratorReturn(f, translations)
  \/ \E f \in DOMAIN tasks : GeneratorFail(f)

Next == Requests \/ BatchEvents \/ CacheEvents

Spec == Init /\ [][Next]_vars

NextCache == Writes \/ CacheEvents

SpecCache == Init /\ [][NextCache]_vars

\* The storage roots passed to configure.
Dirs == {"./other"}

\* The public API with a change of the storage root.
PartitionRequests ==
  \/ \E text \in Texts, lang \in Langs, ctx \in Ctxs : CallT8(text, lang, ctx)
  \/ \E dir \in Dirs : Configure(dir)

NextPartitions == PartitionRequests \/ BatchEvents \/ CacheEvents

SpecPartitions == Init /\ [][NextPartitions]_vars

\* (lang, ctx) pairs of distinct partitions of one storage root.
Partitions == {<<"fr", "default">>, <<"fr", "x:y">>, <<"fr:x", "y">>}

\* The cache module called for several partitions.
PartitionCalls ==
  \/ \E in \in PutInputs, p \in Partitions :
       CanCall(MaxCalls) /\ CallSetCached(in[1], in[2], p[1], p[2])
  \/ \E text \in Texts, p \in Partitions :
       CanCall(MaxCalls) /\ CallGetCached(text, p[1], p[2])

NextIsolation == PartitionCalls \/ CacheEvents

SpecIsolation == Init /\ [][NextIsolation]_vars

\* t8 with an event loop in which armed timers fire and pending operations
\* complete.
TimerEvents ==
  \/ \E key \in DOMAIN timers : TimerFire(key)
  \/ \E f \in DOMAIN tasks :
       \E translations \in Objects(Range(tasks[f].sent), {"x"}) : GeneratorReturn(f, translations)
  \/ \E f \in DOMAIN tasks : GeneratorFail(f)

NextLive == Requests \/ TimerEvents \/ CacheEvents

\* A partition with no file yet.
InitLive == Init /\ files = <<>>

SpecLive == InitLive /\ [][NextLive]_vars /\ WF_vars(TimerEvents) /\ WF_vars(CacheEvents)

\* setCached called for one partition.
QueueCalls ==
  \E in \in {<<"A", "x">>, <<"B", "y">>}, lang \in Langs, ctx \in Ctxs :
    CallSetCached(in[1], in[2], lang, ctx)

NextLockQueue == QueueCalls \/ CacheEvents

SpecLockQueue == Init /\ [][NextLockQueue]_vars

\* The cache module's writers, with an event loop that runs every file
\* operation and every resumed waiter in the end.
SpecCacheLive == SpecLockQueue /\ WF_vars(CacheEvents)

\* Two partitions of one storage root, with different files.
LockPartitions == {<<"fr", "default">>, <<"fr", "marketing">>}

LockInputs == {<<"A", "x">>, <<"B", "y">>}

\* setCached called for the two partitions.
LockCalls ==
  \E in \in LockInputs, p \in LockPartitions : CallSetCached(in[1], in[2], p[1], p[2])

NextLocks == LockCalls \/ CacheEvents

\* The cache module with writers of two partitions.
SpecLocks == Init /\ [][NextLocks]_vars

\* The caches selectExamples is applied to.
SelectInputs == Objects(Texts \cup {"C"}, {"x", "y"})

InitSelect ==
  /\ config \in {[localesDir |-> DefaultDir, batchSize |-> 1, maxExamples |-> n] :
                    n \in 0..MaxExamples}
  /\ memCache \in {[key \in {getCacheKey(config, "fr", "default")} |-> m] : m \in SelectInputs}
  /\ files = <<>>
  /\ locks = <<>>
  /\ mq = <<>>
  /\ queues = <<>>
  /\ timers = <<>>
  /\ tasks = <<>>
  /\ arrivals = <<>>
  /\ entered = <<>>

\* batch.ts: selectExamples(allCached, config.maxExamples), applied to the
\* partition in memory.
SelectExamples ==
  /\ tasks = <<>>
  /\ LET cache == memCache[getCacheKey(config, "fr", "default")]
     IN tasks' = <<[NewTask("selectExamples", "", "fr", "default", <<>>)
                     EXCEPT !.pc = "done",
                            !.cache = cache,
                            !.examples = selectExamples(cache, config.maxExamples)]>>
  /\ UNCHANGED <<config, memCache, files, locks, mq, queues, timers, arrivals, entered>>

SpecSelect == InitSelect /\ [][SelectExamples]_vars

\* The cache module's read API (cache.ts), called directly.
Reads ==
  \/ \E text \in Texts, lang \in Langs, ctx \in Ctxs : CallGetCached(text, lang, ctx)
  \/ \E lang \in Langs, ctx \in Ctxs : CallGetAllCached(lang, ctx)

NextStore == Reads \/ Writes \/ CacheEvents

\* The callers of getAllCached change what they were returned.
Mutates == \E t \in DOMAIN tasks, op \in Mutations : Mutate(t, op)

NextCopy ==
  \/ \E lang \in Langs, ctx \in Ctxs : CallGetAllCached(lang, ctx)
  \/ Mutates
  \/ Writes
  \/ CacheEvents

\* The cache module with getAllCached callers that change the returned object.
SpecCopy == Init /\ [][NextCopy]_vars

\* The cache module with readers and writers.
SpecStore == Init /\ [][NextStore]_vars

\* ------------------------------------------------------------------ properties of the partition lock

InCriticalSection(t) == tasks[t].pc \in {"loadCache", "mkdir", "writeFile", "rename"}

LockKeys == {tasks[t].lockKey : t \in DOMAIN tasks} \ {""}

\* The tasks of a history that used the lock key lk, in order.
RECURSIVE OfKey(_, _)
OfKey(hist, lk) ==
  IF hist = <<>> THEN <<>>
  ELSE IF Head(hist).key = lk THEN <<Head(hist).t>> \o OfKey(Tail(hist), lk)
  ELSE OfKey(Tail(hist), lk)

IsPrefix(a, b) == Len(a) <= Len(b) /\ \A i \in DOMAIN a : a[i] = b[i]

\* C7: no two withLock critical sections with the same key run at the same time.
MutualExclusion ==
  \A t1, t2 \in DOMAIN tasks :
    (t1 # t2 /\ InCriticalSection(t1) /\ InCriticalSection(t2))
      => tasks[t1].lockKey # tasks[t2].lockKey

\* A waiter has been resumed and found the lock taken by another resumed waiter.
MutualExclusionWitness ==
  \E t1, t2 \in DOMAIN tasks :
    /\ InCriticalSection(t1)
    /\ tasks[t2].pc = "withLock"
    /\ tasks[t1].lockKey = tasks[t2].lockKey
    /\ tasks[t2].lockKey \in DOMAIN locks
    /\ t2 \in Range(locks[tasks[t2].lockKey].waiters)
    /\ Len(OfKey(entered, tasks[t1].lockKey)) >= 2

\* C8: for each key, critical sections are entered in the order of the
\* withLock calls.
LockFifo ==
  \A lk \in LockKeys : IsPrefix(OfKey(entered, lk), OfKey(arrivals, lk))

\* Two callers waited on one lock promise; the first of them has entered and
\* the second is about to test the lock again.
LockFifoWitness ==
  /\ mq # <<>>
  /\ \E t \in DOMAIN tasks :
       /\ InCriticalSection(t)
       /\ tasks[t].lockKey = tasks[Head(mq)].lockKey
       /\ Len(OfKey(entered, tasks[t].lockKey)) = 2
       /\ Len(OfKey(arrivals, tasks[t].lockKey)) = 3

\* ------------------------------------------------------------------ properties of concurrent writes

AllDone == \A t \in DOMAIN tasks : tasks[t].pc = "done"

AllResolved == \A t \in DOMAIN tasks : tasks[t].outcome.st = "resolved"

\* The entries of the calls of a history, merged in order into base.
RECURSIVE MergedInOrder(_, _)
MergedInOrder(base, hist) ==
  IF hist = <<>> THEN base
  ELSE MergedInOrder(ObjectAssign(base, tasks[Head(hist).t].entries), Tail(hist))

PartitionPath == getCachePath(config, "fr", "default")

PartitionKey == getCacheKey(config, "fr", "default")

\* C9: once concurrent setCached / setCachedBatch calls on a partition have
\* all succeeded, memory and file both hold what the partition held at first
\* with every call's entries merged in, the last writer winning per key.
WritesMerged ==
  (tasks # <<>> /\ AllDone /\ AllResolved) =>
    /\ PartitionKey \in DOMAIN memCache
    /\ PartitionPath \in DOMAIN files
    /\ files[PartitionPath].ok
    /\ files[PartitionPath].data = memCache[PartitionKey]
    /\ memCache[PartitionKey] \in
         {MergedInOrder(<<>>, entered), MergedInOrder(InitialObject, entered)}
    /\ \A t \in DOMAIN tasks : \A k \in Keys(tasks[t].entries) : Has(memCache[PartitionKey], k)

\* Three calls that overlapped have succeeded, two of them on the same key
\* with different values.
WritesMergedWitness ==
  /\ Len(tasks) = 3
  /\ AllDone
  /\ AllResolved
  /\ OfKey(arrivals, PartitionPath) = <<1, 2, 3>>
  /\ \E t1, t2 \in DOMAIN tasks : \E k \in Keys(tasks[t1].entries) :
       /\ t1 # t2
       /\ Has(tasks[t2].entries, k)
       /\ Get(tasks[t1].entries, k) # Get(tasks[t2].entries, k)

\* ------------------------------------------------------------------ properties of a batch

Flushes == {f \in DOMAIN tasks : tasks[f].kind = "flush"}

\* The batches whose flush has run to its end.
Closed == {f \in Flushes : tasks[f].pc = "done"}

Items(f) == Range(tasks[f].queue)

\* The callers waiting on an item: the caller that created it and every
\* caller that arrived for the same text while the batch was collecting.
Callers(item) == Range(item.resolve) \cup {item.reject}

Occurrences(seq, x) == Cardinality({i \in DOMAIN seq : seq[i] = x})

\* The flush went through the generator and the persist.
Succeeded(f) == tasks[f].gen = "ok" /\ tasks[f].persist = "ok"

ResolvedWith(t, v) == tasks[t].outcome = [st |-> "resolved", v |-> v]

RejectedWith(t, err) == tasks[t].outcome = [st |-> "rejected", v |-> err]

\* C1: the callers of one text in one batch: the generator is called once for
\* the batch, with the text once, and when it returns a value for the text
\* (and the batch is persisted) every one of the callers resolves with it.
DedupPiggyback ==
  \A f \in Closed : \A item \in Items(f) :
    /\ tasks[f].genCount = 1
    /\ Occurrences(tasks[f].sent, item.text) = 1
    /\ (Succeeded(f) /\ Has(tasks[f].entries, item.text))
         => \A c \in Callers(item) : ResolvedWith(c, Get(tasks[f].entries, item.text))

\* C2: no waiter stays pending: when the flush of a batch has ended, every
\* caller of every text of the batch has resolved or rejected.
BatchSettlesEveryWaiter ==
  \A f \in Closed : \A item \in Items(f) : \A c \in Callers(item) :
    tasks[c].outcome.st # "pending"

\* C3: when the generator call fails, every caller of every text of the
\* batch, piggybacked callers included, is rejected with the generator's error.
GeneratorFailureRejectsAll ==
  \A f \in Closed : tasks[f].gen = "fail" =>
    \A item \in Items(f) : \A c \in Callers(item) : RejectedWith(c, GeneratorError)

\* C4: when the generator's result omits a requested text, every caller of
\* that text is rejected with "No translation returned".
OmittedTextRejectsAll ==
  \A f \in Closed : \A item \in Items(f) :
    (Succeeded(f) /\ ~Has(tasks[f].entries, item.text))
      => \A c \in Callers(item) : RejectedWith(c, NoTranslation(item.text))

\* The generator's result omits a text of the batch.
Partial(f) == \E item \in Items(f) : ~Has(tasks[f].entries, item.text)

\* C5: in a flush whose result omits some text, the callers of every text
\* that is in the result resolve with that text's value.
PartialResultResolvesPresent ==
  \A f \in Closed : (Succeeded(f) /\ Partial(f)) =>
    \A item \in Items(f) : Has(tasks[f].entries, item.text) =>
      \A c \in Callers(item) : ResolvedWith(c, Get(tasks[f].entries, item.text))

\* C6: on generator success every caller of a text is resolved with exactly
\* the value the generator returned for it in that flush, whatever the value.
ResolvedWithReturnedValue ==
  \A f \in Closed : Succeeded(f) =>
    \A item \in Items(f) : \A v \in Values :
      (Has(tasks[f].entries, item.text) /\ Get(tasks[f].entries, item.text) = v)
        => \A c \in Callers(item) : ResolvedWith(c, v)

Requested == {tasks[t].text : t \in UserCalls}

\* C10: when every request has resolved and nothing is in progress, the
\* partition's file holds an entry for every requested text.
FileHoldsEveryRequestedText ==
  (tasks # <<>> /\ AllDone /\ AllResolved /\ queues = <<>>) =>
    /\ PartitionPath \in DOMAIN files
    /\ files[PartitionPath].ok
    /\ \A text \in Requested : Has(files[PartitionPath].data, text)

\* ------------------------------------------------------------------ properties of the cache module

Getters == {t \in DOMAIN tasks : tasks[t].kind = "getCached"}

\* The getCached call is suspended in loadCache, on its fs.readFile.
Loading(t) == tasks[t].pc = "getCached" /\ tasks[t].loadPath # ""

\* C11: getCached calls made together on a partition that is not in memory
\* issue one read of the file: no two of them are waiting on a read of the
\* same file at the same time.
AtMostOneLoad ==
  \A t1, t2 \in Getters :
    (t1 # t2 /\ Loading(t1) /\ Loading(t2)) => tasks[t1].loadPath # tasks[t2].loadPath

\* What a load of the partition's file would deliver.
OnDisk ==
  IF PartitionPath \in DOMAIN files /\ files[PartitionPath].ok
  THEN files[PartitionPath].data ELSE <<>>

WriteFailed(t) == RejectedWith(t, WriteError)

\* C12: when the write of a setCached / setCachedBatch call has failed, the
\* call is rejected and its entries are not in memory: once the calls have
\* returned, the partition in memory equals the partition on disk.
FailedWriteLeavesMemory ==
  (AllDone /\ PartitionKey \in DOMAIN memCache /\ \E t \in DOMAIN tasks : WriteFailed(t))
    => memCache[PartitionKey] = OnDisk

Writers == {t \in DOMAIN tasks : tasks[t].kind \in {"setCached", "setCachedBatch"}}

\* The setCached / setCachedBatch calls that wrote text, in the order of
\* their critical sections.
RECURSIVE WritesOf(_, _)
WritesOf(hist, text) ==
  IF hist = <<>> THEN <<>>
  ELSE IF Has(tasks[Head(hist).t].entries, text)
       THEN <<Head(hist).t>> \o WritesOf(Tail(hist), text)
       ELSE WritesOf(Tail(hist), text)

\* Every call made so far has returned, the writes of text without error.
Completed(text) ==
  /\ AllDone
  /\ WritesOf(entered, text) # <<>>
  /\ \A w \in Writers : tasks[w].outcome.st = "resolved"

LastWritten(text) ==
  LET ws == WritesOf(entered, text) IN Get(tasks[ws[Len(ws)]].entries, text)

\* This step is a call getCached(text, ...), and the call has returned.
GetCachedStep(text) ==
  /\ Len(tasks') = Len(tasks) + 1
  /\ tasks'[Len(tasks')].kind = "getCached"
  /\ tasks'[Len(tasks')].text = text

\* C13: once setCached(text, v) has completed, every getCached(text) returns
\* v, whatever string v is, however often it is called.
GetReturnsPut ==
  [][\A text \in Texts :
       (Completed(text) /\ Len(WritesOf(entered, text)) = 1 /\ GetCachedStep(text))
         => tasks'[Len(tasks')].outcome = [st |-> "resolved", v |-> LastWritten(text)]]_vars

\* Two setCached calls have written text, one after the other, and nothing
\* else has.
PutTwice(text) ==
  /\ Completed(text)
  /\ Len(WritesOf(entered, text)) = 2
  /\ \A i \in 1..2 : tasks[WritesOf(entered, text)[i]].kind = "setCached"

\* C14: after setCached(text, v1) followed by setCached(text, v2), the file
\* holds v2 for text and getCached(text) returns v2.
LastWriteWins ==
  /\ [](\A text \in Texts : PutTwice(text) =>
          (Has(OnDisk, text) /\ Get(OnDisk, text) = LastWritten(text)))
  /\ [][\A text \in Texts : (PutTwice(text) /\ GetCachedStep(text))
          => tasks'[Len(tasks')].outcome = [st |-> "resolved", v |-> LastWritten(text)]]_vars

\* ------------------------------------------------------------------ properties of the flush triggers

\* C15: a request that brings the collecting batch to batchSize distinct
\* texts detaches and flushes it in the same step, without the timer: no
\* batch is left collecting at the threshold, a batch flushed by enqueue has
\* exactly batchSize texts, its timer is cleared and its generator call is
\* made; the next request starts a new batch.
SizeTriggeredFlush ==
  /\ \A key \in DOMAIN queues : Len(queues[key]) < config.batchSize
  /\ \A f \in Flushes :
       /\ Len(tasks[f].sent) <= config.batchSize
       /\ tasks[f].via = "size" =>
            /\ Len(tasks[f].sent) = config.batchSize
            /\ tasks[f].genCount = 1
            /\ \A g \in Flushes : g < f => Items(g) \cap Items(f) = {}

\* With batchSize 2, a second distinct request has flushed the batch of two
\* while its timer was armed; the generator call is in flight.
SizeTriggeredFlushWitness ==
  \E f \in Flushes :
    /\ tasks[f].via = "size"
    /\ config.batchSize = 2
    /\ Len(tasks[f].sent) = 2
    /\ tasks[f].pc = "translate"
    /\ timers = <<>>

\* The step enqueues no request.
NoEnqueue ==
  \A t \in DOMAIN tasks' :
    tasks'[t].pc = "enqueued" => (t \in DOMAIN tasks /\ tasks[t].pc = "enqueued")

\* The timer of the queue fires in this step.
TimerFires(key) == key \in DOMAIN timers /\ key \notin DOMAIN timers'

\* C16: a collecting batch that gets no further request stays collecting
\* until its timer fires, and in the step in which the timer fires it is
\* detached and flushed.
DelayTriggeredFlush ==
  [][\A key \in DOMAIN queues : NoEnqueue =>
       /\ key \in DOMAIN queues' <=> ~TimerFires(key)
       /\ TimerFires(key) =>
            /\ Len(tasks') = Len(tasks) + 1
            /\ tasks'[Len(tasks')].kind = "flush"
            /\ tasks'[Len(tasks')].via = "timer"
            /\ tasks'[Len(tasks')].queue = queues[key]]_vars

\* A single request has been flushed by the timer, below the threshold.
DelayTriggeredFlushWitness ==
  /\ Len(tasks) = 2
  /\ config.batchSize = 2
  /\ tasks[1].kind = "t8"
  /\ tasks[2].kind = "flush"
  /\ tasks[2].via = "timer"
  /\ Len(tasks[2].queue) = 1

\* ------------------------------------------------------------------ properties of partitions

\* The partition a t8 call is made for: the storage root in force at the
\* call, the language and the context name.
PartitionOf(t) == <<tasks[t].root, tasks[t].lang, tasks[t].ctx>>

\* The callers of a batch, collecting or flushing.
BatchCallers(queue) == UNION {Callers(queue[i]) : i \in DOMAIN queue}

Batches == {queues[key] : key \in DOMAIN queues} \cup {tasks[f].queue : f \in Flushes}

\* C17: requests for two distinct partitions (storage root, language,
\* context name) are never in the same batch, collecting or flushed, and so
\* never share a generator call.
BatchesIsolated ==
  \A queue \in Batches : \A c1, c2 \in BatchCallers(queue) : PartitionOf(c1) = PartitionOf(c2)

\* ------------------------------------------------------------------ properties of flush

\* provider.translate has been called by the flush and has not returned.
InFlight(f) == tasks[f].pc = "translate"

\* C18: two flushes of the same partition never have their generator calls
\* in flight at the same time.
OneFlushInFlight ==
  \A f, g \in Flushes :
    (f # g /\ InFlight(f) /\ InFlight(g))
      => getQueueKey(tasks[f].lang, tasks[f].ctx) # getQueueKey(tasks[g].lang, tasks[g].ctx)

\* The texts of a queue, in order.
TextsOf(queue) == [i \in DOMAIN queue |-> queue[i].text]

\* The flush calls provider.translate in this step.
GeneratorCalled(f) ==
  /\ tasks'[f].genCount > (IF f \in DOMAIN tasks THEN tasks[f].genCount ELSE 0)

\* C19: a flush calls the generator once: with all the distinct texts of its
\* batch, the batch's language and the examples selected from the partition's
\* cache, in one call; it does not call it again when the call fails; no
\* generator call is made for an empty batch.
OneGeneratorCallPerFlush ==
  /\ [](\A f \in Flushes :
          /\ tasks[f].queue # <<>>
          /\ tasks[f].genCount <= 1
          /\ tasks[f].pc # "getAllCached" => tasks[f].genCount = 1
          /\ tasks[f].sent = UniqueOf(TextsOf(tasks[f].queue), {})
          /\ \A c \in BatchCallers(tasks[f].queue) : tasks[c].lang = tasks[f].lang)
  /\ [][\A f \in DOMAIN tasks' : (tasks'[f].kind = "flush" /\ GeneratorCalled(f)) =>
          /\ tasks'[f].pc = "translate"
          /\ tasks'[f].examples =
               selectExamples(memCache'[getCacheKey(config, tasks'[f].lang, tasks'[f].ctx)],
                              config.maxExamples)]_vars

\* The generator call of a batch of two texts has failed and the flush has
\* ended, after that one call.
OneGeneratorCallPerFlushWitness ==
  \E f \in Closed :
    /\ tasks[f].gen = "fail"
    /\ Len(tasks[f].sent) = 2
    /\ tasks[f].genCount = 1

\* ------------------------------------------------------------------ properties of t8

\* getCached returns to t8 in this step.
GetCachedReturns(t) ==
  /\ tasks'[t].kind = "t8"
  /\ t \in DOMAIN tasks => tasks[t].pc = "getCached"
  /\ tasks'[t].pc # "getCached"

\* The partition's cache as loadCache returns it to the call in this step.
CacheFound(t) == memCache'[getCacheKey([localesDir |-> tasks'[t].root], tasks'[t].lang, tasks'[t].ctx)]

\* getCached returns a value, not null: cache[text] || null.
IsCached(t) ==
  /\ getCacheKey([localesDir |-> tasks'[t].root], tasks'[t].lang, tasks'[t].ctx) \in DOMAIN memCache'
  /\ Truthy(CacheFound(t), tasks'[t].text)

AllGetters == {t \in DOMAIN tasks : tasks[t].kind = "getAllCached"}

\* The call's fs.readFile has found (st) and the call resumes in this step.
LoadDelivers(t, st) == Reading(t) /\ tasks[t].data.st = st /\ tasks'[t].pc # tasks[t].pc

\* C21: a load that finds no file yields an empty mapping, not an error:
\* the partition is {} in memory, getCached returns null and getAllCached
\* returns {}.
MissingFileLoadsEmpty ==
  [][\A t \in DOMAIN tasks : LoadDelivers(t, "ENOENT") =>
       /\ tasks'[t].outcome.st # "rejected"
       /\ t \in Getters \cup AllGetters => memCache'[tasks[t].loadKey] = <<>>
       /\ t \in Writers => tasks'[t].cache = ObjectAssign(<<>>, tasks[t].entries)
       /\ t \in Getters => tasks'[t].outcome = [st |-> "null", v |-> ""]
       /\ t \in AllGetters =>
            (tasks'[t].outcome.st = "resolved" /\ tasks'[t].returned = <<>>)]_vars

\* getCached and getAllCached have both loaded a partition that has no file.
MissingFileLoadsEmptyWitness ==
  /\ files = <<>>
  /\ \E t \in Getters : tasks[t].outcome.st = "null" /\ tasks[t].loadPath # ""
  /\ \E t \in AllGetters :
       tasks[t].outcome.st = "resolved" /\ tasks[t].returned = <<>> /\ tasks[t].loadPath # ""

\* The partition's file exists and is not parseable.
Corrupt == PartitionPath \in DOMAIN files /\ ~files[PartitionPath].ok

FileChanges ==
  /\ PartitionPath \in DOMAIN files'
  /\ PartitionPath \in DOMAIN files => files'[PartitionPath] # files[PartitionPath]

\* C23: the partition's file changes only by the rename that ends a save,
\* from its complete previous content to the complete new content; a save
\* in progress or interrupted at mkdir, at the temp-file write or at the
\* rename leaves the file as it was.
AtomicPersistence ==
  /\ [][(PartitionPath \in DOMAIN files) => (PartitionPath \in DOMAIN files')]_vars
  /\ [][FileChanges =>
          \E t \in DOMAIN tasks :
            /\ tasks[t].pc = "rename"
            /\ tasks[t].savePath = PartitionPath
            /\ tasks'[t].outcome.st = "resolved"
            /\ files'[PartitionPath] = [ok |-> TRUE, data |-> tasks[t].cache]]_vars

\* A save was interrupted in its temp-file write after an earlier save had
\* completed: the temp file is torn, the partition's file is whole.
AtomicPersistenceWitness ==
  /\ TempPath(PartitionPath) \in DOMAIN files
  /\ files[TempPath(PartitionPath)] = Torn
  /\ PartitionPath \in DOMAIN files
  /\ files[PartitionPath].ok
  /\ \E t, u \in Writers : WriteFailed(t) /\ tasks[u].outcome.st = "resolved"

\* ------------------------------------------------------------------ properties of getAllCached

\* The caller changes the object getAllCached returned to it, in this step.
CallerMutates(t) ==
  /\ tasks[t].kind = "getAllCached"
  /\ tasks[t].outcome.st = "resolved"
  /\ tasks'[t].returned # tasks[t].returned

\* getAllCached returns to its caller in this step.
GetAllCachedReturns(t) ==
  /\ tasks'[t].kind = "getAllCached"
  /\ tasks'[t].outcome.st = "resolved"
  /\ t \in DOMAIN tasks => tasks[t].outcome.st = "pending"

\* C24: getAllCached returns a copy: a caller that adds, changes or deletes
\* entries of the returned object changes neither the partition in memory
\* nor any file, and every getAllCached returns the partition as it is in
\* memory, whatever earlier callers did to their copies.
ReturnsCopy ==
  /\ [][\A t \in DOMAIN tasks : CallerMutates(t) => (memCache' = memCache /\ files' = files)]_vars
  /\ [][\A t \in DOMAIN tasks' : GetAllCachedReturns(t) =>
          tasks'[t].returned =
            memCache'[getCacheKey(config, tasks'[t].lang, tasks'[t].ctx)]]_vars

\* A caller has changed its copy, and a later caller got the partition
\* without the change.
ReturnsCopyWitness ==
  \E t, u \in AllGetters :
    /\ t < u
    /\ \E k \in Texts : Has(tasks[t].returned, k) /\ Get(tasks[t].returned, k) = "m"
    /\ tasks[u].outcome.st = "resolved"
    /\ tasks[u].returned # <<>>
    /\ tasks[u].returned = memCache[PartitionKey]
    /\ tasks[u].returned = OnDisk

\* ------------------------------------------------------------------ properties of selectExamples

\* The last n entries of an object, in insertion order.
LastEntries(m, n) == SubSeq(m, Len(m) - n + 1, Len(m))

\* C25: selectExamples returns all the entries when there are at most
\* maxExamples of them, and otherwise exactly the maxExamples most recently
\* inserted ones; never more than maxExamples.
SelectsMostRecent ==
  \A t \in DOMAIN tasks : tasks[t].kind = "selectExamples" =>
    LET cache == tasks[t].cache
        n == config.maxExamples
    IN /\ Len(tasks[t].examples) <= n
       /\ Len(cache) <= n => tasks[t].examples = cache
       /\ Len(cache) > n => tasks[t].examples = LastEntries(cache, n)

\* ------------------------------------------------------------------ properties of cache partitions

\* What getCached / getAllCached for the partition work on, and its file.
InMemory(p) ==
  LET key == getCacheKey(config, p[1], p[2])
  IN IF key \in DOMAIN memCache THEN <<memCache[key]>> ELSE <<>>

OnFile(p) ==
  LET path == getCachePath(config, p[1], p[2])
  IN IF path \in DOMAIN files THEN <<files[path]>> ELSE <<>>

\* The call runs in this step: it starts or it goes on.
Acts(t) == t \in DOMAIN tasks => tasks'[t] # tasks[t]

\* C26: a call on one partition changes neither what is in memory for
\* another partition nor the other partition's file: whenever a partition's
\* memory or file changes, a call on that very partition is acting.
CachePartitionsIsolated ==
  [][\A p \in Partitions :
       (InMemory(p)' # InMemory(p) \/ OnFile(p)' # OnFile(p)) =>
         \E t \in DOMAIN tasks' :
           Acts(t) /\ <<tasks'[t].lang, tasks'[t].ctx>> = p]_vars

\* ------------------------------------------------------------------ properties of setCachedBatch

BatchWriters == {t \in DOMAIN tasks : tasks[t].kind = "setCachedBatch"}

\* The call merges its entries and starts its save in this step; base is the
\* partition as loadCache returns it.
Merges(t) == tasks[t].pc \in {"start", "withLock", "loadCache"} /\ tasks'[t].pc = "mkdir"

LoadedBy(t) ==
  IF tasks[t].pc = "loadCache" THEN tasks[t].data.m
  ELSE memCache[getCacheKey(config, tasks[t].lang, tasks[t].ctx)]

\* C27: setCachedBatch merges its entries into the partition and saves once:
\* every key of the entries gets the incoming value, every other key keeps
\* its value, one save is made whatever the number of entries, and after the
\* call getCached returns the incoming value for every key of the entries.
BatchMergedOnce ==
  /\ [](\A t \in BatchWriters :
          /\ tasks[t].saveCount <= 1
          /\ tasks[t].outcome.st = "resolved" =>
               tasks[t].saveCount = 1)
  /\ [][\A t \in BatchWriters : Merges(t) =>
          LET merged == memCache'[tasks[t].key]
          IN /\ \A k \in Keys(tasks[t].entries) :
                  Has(merged, k) /\ Get(merged, k) = Get(tasks[t].entries, k)
             /\ \A k \in Keys(LoadedBy(t)) \ Keys(tasks[t].entries) :
                  Has(merged, k) /\ Get(merged, k) = Get(LoadedBy(t), k)
             /\ Keys(merged) = Keys(LoadedBy(t)) \cup Keys(tasks[t].entries)]_vars
  /\ [][\A text \in Texts :
          (/\ Completed(text)
           /\ tasks[WritesOf(entered, text)[Len(WritesOf(entered, text))]].kind = "setCachedBatch"
           /\ GetCachedStep(text))
            => tasks'[Len(tasks')].outcome = [st |-> "resolved", v |-> LastWritten(text)]]_vars

\* The flushes whose generator call failed.
GeneratorFailed == {f \in Flushes : tasks[f].gen = "fail"}

\* A step of flush f from its start up to the failure of its generator call.
FailingFlushStep(f) ==
  /\ f \in DOMAIN tasks'
  /\ tasks'[f].kind = "flush"
  /\ tasks'[f].gen # "ok"
  /\ IF f \in DOMAIN tasks THEN tasks[f].gen = "none" /\ tasks'[f] # tasks[f] ELSE TRUE

\* The step is the end of loadCache in the getCached of request t, which goes
\* on to enqueue: memory receives what the request read from the file.
LoadedThenEnqueued(t) ==
  /\ tasks[t].kind = "t8"
  /\ Reading(t)
  /\ tasks'[t].pc = "enqueued"
  /\ memCache' = MapSet(memCache, tasks[t].loadKey, tasks[t].data.m)

\* The calls that went as far as withLock: setCached / setCachedBatch calls.
Persisting == {arrivals[i].t : i \in DOMAIN arrivals}

\* C28: when the generator call of a flush fails nothing is persisted: no
\* step of the flush, from its start to the failure, changes the partition in
\* memory or a file, and the flush never calls setCachedBatch, so that it
\* issues no write (no mkdir, no temp file, no rename) and takes no lock.
FailedFlushPersistsNothing ==
  /\ [](\A f \in GeneratorFailed :
          /\ tasks[f].pc = "done"
          /\ tasks[f].saveCount = 0
          /\ tasks[f].persist = "none"
          /\ f \notin Persisting)
  /\ [][\A f \in DOMAIN tasks' : FailingFlushStep(f) =>
          /\ files' = files
          /\ locks' = locks
          /\ \/ memCache' = memCache
             \/ f \notin DOMAIN tasks /\ \E t \in DOMAIN tasks : LoadedThenEnqueued(t)]_vars

\* A flush on a partition that holds an entry, in memory and on file, has
\* ended with the failure of its generator call.
FailedFlushPersistsNothingWitness ==
  \E f \in GeneratorFailed :
    /\ tasks[f].pc = "done"
    /\ PartitionKey \in DOMAIN memCache
    /\ memCache[PartitionKey] = InitialObject
    /\ PartitionPath \in DOMAIN files
    /\ files[PartitionPath] = [ok |-> TRUE, data |-> InitialObject]

\* The pairs of an object.
Pairs(m) == {<<m[i].k, m[i].v>> : i \in DOMAIN m}

\* The generator returned a value for every text it was asked for.
ReturnedAll(f) == \A i \in DOMAIN tasks[f].sent : Has(tasks[f].entries, tasks[f].sent[i])

\* The step in which the setCachedBatch of flush f commits its file.
FlushPersists(f) ==
  /\ tasks[f].kind = "flush"
  /\ tasks[f].pc = "rename"
  /\ tasks'[f].persist = "ok"

\* What the file at path holds.
Held(fs, path) == IF path \in DOMAIN fs /\ fs[path].ok THEN fs[path].data ELSE <<>>

\* C29: when a flush whose generator returned a value for every requested
\* text persists, the partition's file then holds exactly the pairs it held
\* before plus the returned pairs (a returned pair replacing an older pair of
\* the same text), each text once.
FlushPersistsExactly ==
  [][\A f \in DOMAIN tasks : (FlushPersists(f) /\ ReturnedAll(f)) =>
       LET path == tasks[f].savePath
           after == Held(files', path)
       IN /\ Pairs(after) = Pairs(ObjectAssign(Held(files, path), tasks[f].entries))
          /\ Cardinality(Keys(after)) = Len(after)]_vars

\* The step starts a flush of the partition's batch from enqueue.
SizeFlushes(key) ==
  /\ Len(tasks') > Len(tasks)
  /\ tasks'[Len(tasks')].kind = "flush"
  /\ tasks'[Len(tasks')].via = "size"
  /\ getQueueKey(tasks'[Len(tasks')].lang, tasks'[Len(tasks')].ctx) = key

\* The partition has a collecting batch with a request in it.
Collecting(key) == key \in DOMAIN queues /\ queues[key] # <<>>

\* C30: a size-triggered flush leaves no timer armed for its partition; an
\* armed timer always has a non-empty collecting batch; and a timer that
\* fires finds that batch and flushes it (no flush of an empty partition).
ArmedTimerHasBatch ==
  /\ [](\A key \in DOMAIN timers : Collecting(key))
  /\ [][\A lang \in Langs, ctx \in Ctxs :
          SizeFlushes(getQueueKey(lang, ctx)) => getQueueKey(lang, ctx) \notin DOMAIN timers']_vars
  /\ [][\A key \in DOMAIN timers : (NoEnqueue /\ TimerFires(key)) =>
          /\ Collecting(key)
          /\ Len(tasks') = Len(tasks) + 1
          /\ tasks'[Len(tasks')].kind = "flush"
          /\ tasks'[Len(tasks')].queue # <<>>]_vars

\* A batch of two was flushed by its second request while its timer was
\* armed; the flush has ended and no timer is left.
ArmedTimerHasBatchWitness ==
  \E f \in Closed :
    /\ tasks[f].via = "size"
    /\ Len(tasks[f].queue) = 2
    /\ timers = <<>>
    /\ queues = <<>>

\* The step enqueues request t.
Enqueues(t) ==
  /\ t \in DOMAIN tasks'
  /\ tasks'[t].pc = "enqueued"
  /\ t \in DOMAIN tasks => tasks[t].pc # "enqueued"

\* The flushes started in this step.
Started == {f \in DOMAIN tasks' : tasks'[f].kind = "flush" /\ f \notin DOMAIN tasks}

\* C31: flush detaches the batch in the step in which it starts, so that a
\* flushing batch is never in the map of collecting batches; the batch of a
\* flush (its items, their callers, the texts sent) never changes afterwards;
\* and a request enqueued later is in no batch that was already flushing.
DetachedAtFlush ==
  /\ [](\A f \in Flushes : \A key \in DOMAIN queues : queues[key] # tasks[f].queue)
  /\ [][/\ \A f \in Started :
             getQueueKey(tasks'[f].lang, tasks'[f].ctx) \notin DOMAIN queues'
        /\ \A f \in Flushes :
             /\ tasks'[f].queue = tasks[f].queue
             /\ tasks'[f].sent = tasks[f].sent
             /\ \A t \in DOMAIN tasks' : Enqueues(t) => t \notin BatchCallers(tasks[f].queue)]_vars

\* While a batch holding text A is with the generator, a later request for A
\* waits in a fresh collecting batch.
DetachedAtFlushWitness ==
  \E f \in Flushes : \E key \in DOMAIN queues : \E t \in DOMAIN tasks :
    /\ tasks[f].pc = "translate"
    /\ t > f
    /\ tasks[t].pc = "enqueued"
    /\ tasks[t].text \in Range(tasks[f].sent)
    /\ t \in BatchCallers(queues[key])
    /\ t \notin BatchCallers(tasks[f].queue)

\* The texts of the requests of a batch.
QueuedTexts(queue) == {queue[i].text : i \in DOMAIN queue}

\* The setCachedBatch of flush f merges the generator's result in this step.
FlushMerges(f) ==
  /\ tasks[f].kind = "flush"
  /\ tasks'[f].saveCount = tasks[f].saveCount + 1

\* C32: flush sends every text of its batch to the generator, whether or not
\* the cache holds the text by then, and the value the generator returns
\* replaces the cached one, in memory and in the file the flush writes.
NoRecheckAtFlush ==
  /\ [](\A f \in Flushes : tasks[f].genCount > 0 =>
          Range(tasks[f].sent) = QueuedTexts(tasks[f].queue))
  /\ [][\A f \in DOMAIN tasks :
          /\ FlushMerges(f) =>
               \A k \in Keys(tasks'[f].entries) :
                 Get(memCache'[tasks'[f].key], k) = Get(tasks'[f].entries, k)
          /\ FlushPersists(f) =>
               \A k \in Keys(tasks[f].entries) :
                 Get(Held(files', tasks[f].savePath), k) = Get(tasks[f].entries, k)]_vars

\* A text that was queued while absent from the cache has been stored by
\* another flush in the meantime, and is with the generator again.
NoRecheckAtFlushWitness ==
  \E f \in Flushes : \E text \in Range(tasks[f].sent) :
    /\ tasks[f].pc = "translate"
    /\ PartitionKey \in DOMAIN memCache
    /\ Truthy(memCache[PartitionKey], text)
    /\ text \notin Keys(InitialObject)

\* The step is the withLock call of t.
Arrives(t) ==
  /\ \E i \in DOMAIN arrivals' : arrivals'[i].t = t
  /\ \A i \in DOMAIN arrivals : arrivals[i].t # t

\* t enters its critical section in this step.
Enters(t) ==
  /\ \E i \in DOMAIN entered' : entered'[i].t = t
  /\ \A i \in DOMAIN entered : entered[i].t # t

\* C33: locks of different keys are independent: a caller waits only on the
\* lock of its own key, and a withLock call, or a resumed waiter, whose key
\* is not locked enters its critical section in the same step, whatever
\* runs or waits under other keys.
LocksIndependent ==
  /\ [](\A lk \in DOMAIN locks : \A w \in Range(locks[lk].waiters) : tasks[w].lockKey = lk)
  /\ [][\A t \in DOMAIN tasks' :
          Arrives(t) => (tasks'[t].lockKey \in DOMAIN locks \/ Enters(t))]_vars
  /\ [][mq # <<>> =>
          (tasks[Head(mq)].lockKey \in DOMAIN locks \/ Enters(Head(mq)))]_vars

\* A critical section runs under one key with a caller waiting for it, and a
\* caller that came after them is in its critical section under another key.
LocksIndependentWitness ==
  \E t1, t2, t3 \in DOMAIN tasks :
    /\ t1 < t2 /\ t2 < t3
    /\ InCriticalSection(t1)
    /\ tasks[t2].pc = "withLock"
    /\ tasks[t2].lockKey = tasks[t1].lockKey
    /\ InCriticalSection(t3)
    /\ tasks[t3].lockKey # tasks[t1].lockKey

\* The critical section of t ends in this step.
Leaves(t) == InCriticalSection(t) /\ ~InCriticalSection(t)'

HasEntered(t) == \E i \in DOMAIN entered : entered[i].t = t

\* t is in withLock and has not entered its critical section.
Waiting(t) == t \in DOMAIN tasks /\ tasks[t].pc = "withLock"

\* C34: the lock is always released: a held lock belongs to a running
\* critical section; the step in which a critical section ends, by returning
\* or by throwing, frees its key and settles that caller only; and every
\* caller waiting for a key enters its critical section in the end.
LockAlwaysReleased ==
  /\ [](\A lk \in DOMAIN locks :
          InCriticalSection(locks[lk].holder) /\ tasks[locks[lk].holder].lockKey = lk)
  /\ [][\A t \in DOMAIN tasks : Leaves(t) =>
          /\ tasks[t].lockKey \notin DOMAIN locks'
          /\ tasks'[t].outcome.st \in {"resolved", "rejected"}
          /\ \A u \in DOMAIN tasks \ {t} : tasks'[u].outcome = tasks[u].outcome]_vars
  /\ \A t \in 1..MaxWrites : Waiting(t) ~> HasEntered(t)

\* A critical section has ended by throwing and a caller that waited for
\* its key is being resumed with the key free.
LockAlwaysReleasedWitness ==
  /\ mq # <<>>
  /\ \E t \in DOMAIN tasks :
       /\ tasks[t].outcome.st = "rejected"
       /\ tasks[t].lockKey = tasks[Head(mq)].lockKey
       /\ tasks[t].lockKey \notin DOMAIN locks
       /\ Waiting(Head(mq))

\* The generator returned and the setCachedBatch of the flush threw.
PersistFailed(f) == tasks[f].gen = "ok" /\ tasks[f].persist = "fail"

\* The errors setCachedBatch can throw.
StorageErrors == {WriteError} \cup {LoadError(tasks[t].loadPath) : t \in DOMAIN tasks}

\* C35: when the generator succeeded and persisting its result failed, the
\* first waiter of every text of the batch is rejected with the storage
\* error, the same for all, and no waiter of the batch is resolved.
PersistFailureRejects ==
  \A f \in Closed : PersistFailed(f) =>
    /\ \E err \in StorageErrors : \A item \in Items(f) : RejectedWith(item.reject, err)
    /\ \A item \in Items(f) : \A c \in Callers(item) : tasks[c].outcome.st # "resolved"

\* A batch of two texts, both returned by the generator, whose save failed.
PersistFailureRejectsWitness ==
  \E f \in Closed :
    /\ PersistFailed(f)
    /\ Len(tasks[f].queue) = 2
    /\ ReturnedAll(f)
    /\ \A item \in Items(f) : RejectedWith(item.reject, WriteError)

\* The waiter t of a batch is resolved in this step.
WaiterResolves(t) ==
  /\ tasks[t].pc = "enqueued"
  /\ tasks'[t].outcome.st = "resolved"

\* The flush whose batch holds the waiter t.
FlushOf(t) == CHOOSE f \in Flushes : t \in BatchCallers(tasks[f].queue)

\* C36: a waiter of a batch is resolved only when the setCachedBatch of its
\* flush has completed, and at that moment the partition in memory and the
\* partition's file both hold the waiter's text.
PersistBeforeResolve ==
  [][\A t \in DOMAIN tasks : WaiterResolves(t) =>
       /\ \E f \in Flushes : t \in BatchCallers(tasks[f].queue)
       /\ LET f == FlushOf(t)
          IN /\ tasks'[f].persist = "ok"
             /\ tasks[f].key \in DOMAIN memCache'
             /\ Has(memCache'[tasks[f].key], tasks[t].text)
             /\ Has(Held(files', tasks[f].savePath), tasks[t].text)]_vars

\* The setCached / setCachedBatch calls that have completed without error.
Committed == {w \in Writers : tasks[w].outcome.st = "resolved"}

\* C37: the entries of a completed setCached / setCachedBatch stay in the
\* partition, in memory and in the file, whatever getCached / getAllCached
\* calls were loading the partition while it was written.
CommittedEntriesKept ==
  \A w \in Committed : \A k \in Keys(tasks[w].entries) :
    /\ tasks[w].key \in DOMAIN memCache
    /\ Has(memCache[tasks[w].key], k)
    /\ Has(Held(files, tasks[w].savePath), k)

\* The flushes that have called the generator.
HandedOver == {f \in Flushes : tasks[f].genCount > 0}

\* C38: with the size threshold k = config.batchSize, every batch handed to
\* the generator has between 1 and k texts, each of them once.
BatchSizeBounded ==
  \A f \in HandedOver :
    /\ 1 <= Len(tasks[f].sent)
    /\ Len(tasks[f].sent) <= config.batchSize
    /\ \A text \in Texts : Occurrences(tasks[f].sent, text) <= 1

\* Below the threshold of two, two requests for one text were handed to the
\* generator as a batch of one text.
BatchSizeBoundedWitness ==
  \E f \in HandedOver :
    /\ config.batchSize = 2
    /\ Len(tasks[f].sent) = 1
    /\ Len(tasks[f].queue) = 1
    /\ Len(tasks[f].queue[1].resolve) = 2

QueueKeys == {getQueueKey(lang, ctx) : lang \in Langs, ctx \in Ctxs}

\* C39: a partition has a non-empty collecting batch exactly when a flush
\* timer is armed for it, and a collecting batch is flushed in the end.
CollectingIffTimer ==
  /\ [](\A key \in QueueKeys : Collecting(key) <=> key \in DOMAIN timers)
  /\ [](\A key \in DOMAIN queues : queues[key] # <<>>)
  /\ \A key \in QueueKeys : Collecting(key) ~> (key \notin DOMAIN queues)

\* A request waits in a collecting batch below the threshold, its timer armed.
CollectingIffTimerWitness ==
  \E key \in DOMAIN timers :
    /\ Collecting(key)
    /\ Len(queues[key]) < config.batchSize
    /\ Flushes = {}

\* The configuration with the storage root that was in force when request t
\* was made.
ConfigOf(t) == [config EXCEPT !.localesDir = tasks[t].root]

\* C40: a flush reads its examples from, and persists its results to, the
\* partition of the storage root under which the requests of its batch were
\* made, also when configure() has changed the root since.
FlushUsesRequestRoot ==
  \A f \in Flushes : \A t \in BatchCallers(tasks[f].queue) :
    /\ tasks[f].loadPath # "" =>
         tasks[f].loadPath = getCachePath(ConfigOf(t), tasks[f].lang, tasks[f].ctx)
    /\ tasks[f].savePath # "" =>
         /\ tasks[f].savePath = getCachePath(ConfigOf(t), tasks[f].lang, tasks[f].ctx)
         /\ tasks[f].key = getCacheKey(ConfigOf(t), tasks[f].lang, tasks[f].ctx)

====
